---- MODULE Spec2Model ----
(***************************************************************************)
(* HypE hypervolume indicators of deap/tools/_hypervolume/hype.py and the  *)
(* selectors of deap/tools/indicator.py, on integer grids.                 *)
(*                                                                         *)
(* Arrays are functions on 0..n-1, as numpy indexes them.  A front is an   *)
(* (N,2) array of integer coordinates: two objectives, which takes         *)
(* hypeSub through its recursive case and its base case.  Real-valued      *)
(* scores are kept as exact integers in a fixed unit: the alpha weights of *)
(* an N-point front are held in units of 1/AlphaUnit(N), and so is every   *)
(* indicator vector built from them; the sampled estimate, a quotient by   *)
(* nrOfSamples, is held as its numerator and its divisor.  Floating-point  *)
(* rounding is not modelled.                                               *)
(*                                                                         *)
(* A state is one call: the front it is about, the arguments, what was     *)
(* drawn at random, and how the call ended.                                *)
(***************************************************************************)
EXTENDS Integers, Sequences, FiniteSets, TLC

\* Largest coordinate of a front point or of a reference point.
MaxCoord == 1
\* Largest number of points in a front.
MaxN == 2
\* Largest number of Monte-Carlo samples drawn at random by one call.
MaxSamples == 1

----------------------------------------------------------------------------
(* numpy helpers *)

RECURSIVE Fact(_)
Fact(n) == IF n <= 0 THEN 1 ELSE n * Fact(n - 1)

RECURSIVE SumTo(_, _)
\* f[0] + ... + f[n-1]
SumTo(f, n) == IF n <= 0 THEN 0 ELSE f[n - 1] + SumTo(f, n - 1)

RECURSIVE ProdTo(_, _)
ProdTo(f, n) == IF n <= 0 THEN 1 ELSE f[n - 1] * ProdTo(f, n - 1)

Size(a) == Cardinality(DOMAIN a)

\* An array held by value, as numpy holds it: f evaluated at every index.
Array(f) == f @@ <<>>

Zeros(n) == Array([p \in 0..(n - 1) |-> 0])

MaxOf(S) == CHOOSE x \in S : \A y \in S : y <= x
MinOf(S) == CHOOSE x \in S : \A y \in S : x <= y

\* np.shape(points): (N, M) for a rectangular array, (N,) for ragged rows.
Shape(points) ==
    IF \A r \in DOMAIN points : Size(points[r]) = Size(points[0])
    THEN <<Size(points), Size(points[0])>>
    ELSE <<Size(points)>>

\* np.max(points, 0) and np.min(points, 0)
ColMax(points) ==
    Array([d \in DOMAIN points[0] |-> MaxOf({points[r][d] : r \in DOMAIN points})])
ColMin(points) ==
    Array([d \in DOMAIN points[0] |-> MinOf({points[r][d] : r \in DOMAIN points})])

\* v.argsort(): positions of v in ascending order of value; equal values keep
\* their source order (numpy sorts arrays this small by insertion).
Argsort(v) ==
    LET n == Size(v)
        rank(j) == Cardinality({q \in 0..(n - 1) :
                        v[q] < v[j] \/ (v[q] = v[j] /\ q < j)})
    IN  Array([r \in 0..(n - 1) |-> CHOOSE j \in 0..(n - 1) : rank(j) = r])

\* a[:n]
Take(a, n) == Array([r \in 0..(n - 1) |-> a[r]])

\* np.concatenate((a[:i], a[i+1:]))
Without(a, i) ==
    Array([r \in 0..(Size(a) - 2) |-> IF r < i THEN a[r] ELSE a[r + 1]])

----------------------------------------------------------------------------
(* alpha weights, hype.py lines 58-62 and 109-113 *)

\* Unit of the alpha weights of an nrP-point front: alpha[i] * AlphaUnit(nrP)
\* is an integer for every k in 1..nrP.
AlphaUnit(nrP) == Fact(nrP - 1) * Fact(nrP)

RECURSIVE alphaRec(_, _, _)
\* alpha[i] after the loop "for i in xrange(1,k)", in units of 1/(nrP-1)!
alphaRec(i, k, nrP) ==
    IF i = 0 THEN Fact(nrP - 1)
    ELSE IF i < k THEN (alphaRec(i - 1, k, nrP) * (k - i)) \div (nrP - i)
    ELSE 0

\* Mutant of Alpha: the division by range(1, nrP+1) left out.
AlphaUndivided(k, nrP) ==
    Array([i \in 0..(nrP - 1) |-> alphaRec(i, k, nrP) * Fact(nrP)])

\* alpha = alpha / range(1, nrP+1), in units of 1/AlphaUnit(nrP)
Alpha(k, nrP) ==
    Array([i \in 0..(nrP - 1) |-> (alphaRec(i, k, nrP) * Fact(nrP)) \div (i + 1)])

----------------------------------------------------------------------------
(* outcomes and arguments *)

\* A call ends by returning a value or by raising a Python exception.
\* den is the divisor of val: 1, or nrOfSamples for the sampled estimate.
Ok(v, d)  == [kind |-> "ok", val |-> v, den |-> d]
Raise(e)  == [kind |-> e, val |-> <<>>, den |-> 1]

\* The optional reference point: None, or an array.
None      == [isNone |-> TRUE, v |-> <<>>]
Some(r)   == [isNone |-> FALSE, v |-> r]

\* wvalues * -1
Negate(front) ==
    Array([r \in DOMAIN front |-> Array([d \in DOMAIN front[r] |-> (-1) * front[r][d]])])

\* Mutant of Dominates: "B > 0" for "B >= 0".
DominatesStrictly(p, s) == \A d \in DOMAIN p : s[d] - p[d] > 0

\* p dominates (weakly) the cell or sample s: np.sum(s - p >= 0) == dim
Dominates(p, s) == \A d \in DOMAIN p : s[d] - p[d] >= 0

----------------------------------------------------------------------------
(* hv.hypervolume: the external hypervolume primitive (not in src/) *)

\* Volume dominated by the points and bounded by ref, counted in unit cells
\* (a cell is named by its lower corner).
Hypervolume(pts, ref) ==
    Cardinality({c \in [DOMAIN ref -> 0..(MaxCoord + 1)] :
        /\ \A d \in DOMAIN ref : c[d] < ref[d]
        /\ \E r \in DOMAIN pts : Dominates(pts[r], c)})

----------------------------------------------------------------------------
(* hypeIndicatorNaive, hype.py lines 19-35; values in unit cells *)

hypeIndicatorNaive(points, ref) ==
    IF Len(Shape(points)) # 2 THEN Raise("ValueError")
    ELSE
    LET nrP == Shape(points)[1]
        r   == IF ref.isNone THEN ColMax(points) ELSE ref.v
        F   == Array([i \in 0..(nrP - 1) |-> Hypervolume(Without(points, i), r)])
    IN  Ok(Array([i \in 0..(nrP - 1) |-> Hypervolume(points, r) - F[i]]), 1)

----------------------------------------------------------------------------
(* hypeIndicatorExact, hype.py lines 89-134; values in 1/AlphaUnit(N) *)

\* Mutant of Extrusion: the operands of the gap to the next row swapped.
ExtrusionSwapped(i, S, actDim, ref) ==
    IF i < Size(S) - 1
    THEN S[i][actDim] - S[i + 1][actDim]
    ELSE ref[actDim] - S[i][actDim]

\* Lines 123-126: the gap on axis actDim from row i of the sorted rows S to
\* the next row, or to the reference point after the last row.
Extrusion(i, S, actDim, ref) ==
    IF i < Size(S) - 1
    THEN S[i + 1][actDim] - S[i][actDim]
    ELSE ref[actDim] - S[i][actDim]

\* Mutant of BaseAdd: the test "i+1 <= k" left out.
BaseAddUnguarded(h, i, pvec, extrusion, k, alpha) ==
    Array([p \in DOMAIN h |->
        IF \E r \in 0..i : pvec[r] = p THEN h[p] + extrusion * alpha[i] ELSE h[p]])

\* Lines 128-129: on axis 0 the first i+1 rows share the gap, weighted alpha[i].
BaseAdd(h, i, pvec, extrusion, k, alpha) ==
    IF i + 1 <= k
    THEN Array([p \in DOMAIN h |->
            IF \E r \in 0..i : pvec[r] = p THEN h[p] + extrusion * alpha[i] ELSE h[p]])
    ELSE h

RECURSIVE hypeSub(_, _, _, _, _, _)
RECURSIVE hypeLoop(_, _, _, _, _, _, _, _)

\* Lines 122-131: the loop "for i in xrange(nrS)" of hypeSub from row i on,
\* h being the accumulator so far; S and pvec are sorted on axis actDim.
hypeLoop(i, h, S, actDim, pvec, ref, k, alpha) ==
    LET extrusion == Extrusion(i, S, actDim, ref)
        h2 == IF actDim = 0
              THEN BaseAdd(h, i, pvec, extrusion, k, alpha)
              ELSE IF extrusion > 0
                   THEN LET sub == hypeSub(Take(S, i + 1), actDim - 1,
                                           Take(pvec, i + 1), ref, k, alpha)
                        IN  Array([p \in DOMAIN h |-> h[p] + extrusion * sub[p]])
                   ELSE h
    IN  IF i >= Size(S) THEN h
        ELSE hypeLoop(i + 1, h2, S, actDim, pvec, ref, k, alpha)

\* Mutant of hypeSub: the rows are not sorted on the active axis.
hypeSubUnsorted(A, actDim, pvec, ref, k, alpha) ==
    hypeLoop(0, Zeros(Size(alpha)), A, actDim, pvec, ref, k, alpha)

\* Mutant of hypeSub: the rows are sorted, the index map is not.
hypeSubStalePvec(A, actDim, pvec, ref, k, alpha) ==
    LET i  == Argsort([r \in DOMAIN A |-> A[r][actDim]])
        S  == Array([r \in DOMAIN A |-> A[i[r]]])
    IN  hypeLoop(0, Zeros(Size(alpha)), S, actDim, pvec, ref, k, alpha)

\* Lines 115-132
hypeSub(A, actDim, pvec, ref, k, alpha) ==
    LET i  == Argsort([r \in DOMAIN A |-> A[r][actDim]])
        S  == Array([r \in DOMAIN A |-> A[i[r]]])
        pv == Array([r \in DOMAIN A |-> pvec[i[r]]])
    IN  hypeLoop(0, Zeros(Size(alpha)), S, actDim, pv, ref, k, alpha)

hypeIndicatorExact(points, k, ref) ==
    IF Len(Shape(points)) # 2 THEN Raise("ValueError")
    ELSE
    LET nrP == Shape(points)[1]
        dim == Shape(points)[2]
    IN  \* alpha[i] = ... with i = nrP is out of range
        IF k > nrP THEN Raise("IndexError")
        \* ref[actDim] is read at the last row of the outermost loop
        ELSE IF ref.isNone THEN Raise("TypeError")
        ELSE IF Size(ref.v) < dim THEN Raise("IndexError")
        ELSE Ok(hypeSub(points, dim - 1, Array([r \in 0..(nrP - 1) |-> r]),
                        ref.v, k, Alpha(k, nrP)), 1)

\* Mutant of Broadcast: a short ref is padded with zeros, not repeated.
BroadcastPadded(r, dim) ==
    Array([d \in 0..(dim - 1) |-> IF d < Size(r) THEN r[d] ELSE 0])

\* ref as (ref - BoxL) and (BoxU - BoxL) broadcast it against the M
\* coordinates of BoxL: a one-element array is repeated on every axis.
Broadcast(r, dim) ==
    Array([d \in 0..(dim - 1) |-> IF Size(r) = 1 THEN r[0] ELSE r[d]])

----------------------------------------------------------------------------
(* hypeIndicatorSampled, hype.py lines 37-87 *)

\* S holds the integer parts of the drawn samples.  The front is on the
\* integer grid, so "sample - point >= 0" depends on the integer part alone.
\* Values are in 1/AlphaUnit(N), over the divisor nrOfSamples.
hypeIndicatorSampled(points, k, ref, S) ==
    IF Len(Shape(points)) # 2 THEN Raise("ValueError")
    ELSE
    LET nrP == Shape(points)[1]
        dim == Shape(points)[2]
        nrOfSamples == Size(S)
        BoxL == ColMin(points)
    IN  IF k > nrP THEN Raise("IndexError")
        \* (ref-BoxL) with ref None
        ELSE IF ref.isNone THEN Raise("TypeError")
        \* (ref-BoxL) broadcasts a one-element ref and no other length
        ELSE IF Size(ref.v) # dim /\ Size(ref.v) # 1 THEN Raise("ValueError")
        ELSE
        LET alpha == Alpha(k, nrP)
            BoxU  == Broadcast(ref.v, dim)
            dominated == Array([s \in DOMAIN S |->
                Cardinality({j \in 0..(nrP - 1) : Dominates(points[j], S[s])})])
            F == Array([j \in 0..(nrP - 1) |->
                    SumTo([s \in DOMAIN S |->
                              IF Dominates(points[j], S[s])
                              THEN alpha[dominated[s] - 1] ELSE 0],
                          nrOfSamples)])
            vol == ProdTo([d \in 0..(dim - 1) |-> BoxU[d] - BoxL[d]], dim)
        IN  Ok(Array([j \in 0..(nrP - 1) |-> F[j] * vol]), nrOfSamples)

----------------------------------------------------------------------------
(* indicator.py *)

\* a[:k] of an array of length n, Python slice rules
Slice(a, k) ==
    LET n == Size(a)
    IN  Take(a, IF k >= 0 THEN (IF k < n THEN k ELSE n)
                ELSE (IF n + k > 0 THEN n + k ELSE 0))

\* Mutant of Argmax: the last position of the largest value.
ArgmaxLast(v) == MaxOf({i \in DOMAIN v : \A j \in DOMAIN v : v[j] <= v[i]})

\* numpy.argmax(v): the first position of the largest value
Argmax(v) == MinOf({i \in DOMAIN v : \A j \in DOMAIN v : v[j] <= v[i]})

\* hypervolume(front, ref=...), indicator.py lines 28-49
hypervolume(front, ref) ==
    LET wobj == Negate(front)
        r    == IF ref.isNone
                THEN Array([d \in DOMAIN wobj[0] |-> ColMax(wobj)[d] + 1])
                ELSE ref.v
        contrib_values ==
            Array([i \in DOMAIN front |-> Hypervolume(Without(wobj, i), r)])
    IN  Ok(Argmax(contrib_values), 1)

\* hypervolumeEst(front, ref=, numRemove=k, dimThresh=, sizeSample=len(S)),
\* indicator.py lines 94-117; S is what the sampled estimator draws.
hypervolumeEst(front, ref, k, dimThresh, S) ==
    LET wobj == Negate(front)
        M    == Shape(wobj)[2]
        h    == IF M >= dimThresh
                THEN hypeIndicatorSampled(wobj, k, ref, S)
                ELSE hypeIndicatorExact(wobj, k, ref)
    IN  IF h.kind # "ok" THEN h
        ELSE Ok(Slice(Argsort(h.val), k), 1)

\* hypervolumeEstX, indicator.py lines 119-137
hypervolumeEstX(front, ref, k, dimThresh, S) ==
    LET M == Size(front[0])
    IN  IF M >= dimThresh
        THEN hypervolumeEst(front, ref, k, dimThresh, S)
        ELSE hypervolume(front, ref)

----------------------------------------------------------------------------
(* inputs *)

\* Largest coordinate of a reference point.
MaxRef == MaxCoord + 1

\* Objective vectors of two objectives on the grid.
Point == [0..1 -> 0..MaxCoord]

\* Fronts of 1..MaxN points.
Fronts == UNION {[0..(n - 1) -> Point] : n \in 1..MaxN}

\* Malformed fronts: the last of two or more rows lacks its second coordinate.
RaggedFronts ==
    {[r \in DOMAIN f |-> IF r = Size(f) - 1 THEN [d \in 0..0 |-> f[r][0]] ELSE f[r]] :
        f \in {g \in Fronts : Size(g) >= 2}}

IsRagged(f) == Len(Shape(f)) # 2

\* Reference points of the front's dimensionality that bound the front.
Bounding(f) ==
    {q \in [0..1 -> 0..MaxRef] : \A d \in 0..1 : ColMax(f)[d] <= q[d]}

\* A reference point as the caller may omit or give it.
Refs(f) ==
    IF IsRagged(f) THEN {None, Some([d \in 0..1 |-> MaxRef])}
    ELSE {None} \cup {Some(q) : q \in Bounding(f)}

\* Reference points of the wrong length: the one coordinate MaxRef, or a
\* bounding reference point with a third coordinate.
BadRefs(f) ==
    IF IsRagged(f) THEN {}
    ELSE {Some([d \in 0..0 |-> MaxRef])}
         \cup {Some([d \in 0..2 |-> IF d < 2 THEN q[d] ELSE e]) :
                 q \in Bounding(f), e \in {0, MaxRef}}

\* Removal ranks tried on an N-point front: 1..N, and 0 and N+1 outside it.
Ranks(f) == 0..(Size(f) + 1)

\* The integer parts a sample drawn by
\*   np.random.random(dim) * (ref - BoxL) + BoxL
\* can have.
SampleCells(f, r) ==
    LET BoxL == ColMin(f)
    IN  {c \in Point : \A d \in 0..1 :
            \/ BoxL[d] <= c[d] /\ c[d] < r[d]
            \/ c[d] = BoxL[d] /\ r[d] = BoxL[d]}

\* One sample in every unit cell of the box between BoxL and ref.
FullCover(f, r) ==
    LET BoxL == ColMin(f)
        w0   == r[0] - BoxL[0]
        w1   == r[1] - BoxL[1]
    IN  Array([t \in 0..(w0 * w1 - 1) |->
            Array([d \in 0..1 |->
                IF d = 0 THEN BoxL[0] + (t % w0) ELSE BoxL[1] + (t \div w0)])])

\* What one call can draw: 1..MaxSamples samples anywhere in the box, or one
\* sample per cell.  A call that fails before it samples draws nothing.
Draws(f, rf) ==
    IF IsRagged(f) \/ rf.isNone \/ Size(rf.v) > 2 THEN {<<>>}
    ELSE LET r == Broadcast(rf.v, 2)
         IN  (UNION {[0..(n - 1) -> SampleCells(f, r)] : n \in 1..MaxSamples})
             \cup (IF \A d \in 0..1 : r[d] > ColMin(f)[d]
                   THEN {FullCover(f, r)} ELSE {})

\* dimThresh as the caller gives it: 2 sends a two-objective front to the
\* sampled estimator, the default 4 to the exact algorithm.
DimThreshs == {2, 4}

----------------------------------------------------------------------------
(* the calls *)

VARIABLES op, points, k, ref, dimThresh, S, result

vars == <<op, points, k, ref, dimThresh, S, result>>

NoResult == Raise("none")

\* No call is in progress.
Idle ==
    /\ op = "idle"
    /\ k = 0
    /\ ref = None
    /\ dimThresh = 0
    /\ S = <<>>
    /\ result = NoResult

Init ==
    /\ points \in Fronts \cup RaggedFronts
    /\ Idle

CallNaive ==
    /\ op = "idle"
    /\ \E r \in Refs(points) :
        /\ ref' = r
        /\ result' = hypeIndicatorNaive(points, r)
    /\ op' = "hypeIndicatorNaive"
    /\ UNCHANGED <<points, k, dimThresh, S>>

CallExact ==
    /\ op = "idle"
    /\ \E r \in Refs(points) \cup BadRefs(points) : \E kk \in Ranks(points) :
        /\ ref' = r
        /\ k' = kk
        /\ result' = hypeIndicatorExact(points, kk, r)
    /\ op' = "hypeIndicatorExact"
    /\ UNCHANGED <<points, dimThresh, S>>

CallSampled ==
    /\ op = "idle"
    /\ \E r \in Refs(points) \cup BadRefs(points) : \E kk \in Ranks(points) :
       \E smp \in Draws(points, r) :
        /\ ref' = r
        /\ k' = kk
        /\ S' = smp
        /\ result' = hypeIndicatorSampled(points, kk, r, smp)
    /\ op' = "hypeIndicatorSampled"
    /\ UNCHANGED <<points, dimThresh>>

\* The selectors take individuals, whose fitness.wvalues are the negated
\* objective vectors.
CallEst ==
    /\ op = "idle"
    /\ ~IsRagged(points)
    /\ \E r \in Refs(points) : \E kk \in Ranks(points) : \E dt \in DimThreshs :
       \E smp \in (IF 2 >= dt THEN Draws(points, r) ELSE {<<>>}) :
        /\ ref' = r
        /\ k' = kk
        /\ dimThresh' = dt
        /\ S' = smp
        /\ result' = hypervolumeEst(Negate(points), r, kk, dt, smp)
    /\ op' = "hypervolumeEst"
    /\ UNCHANGED points

CallEstX ==
    /\ op = "idle"
    /\ ~IsRagged(points)
    /\ \E r \in Refs(points) : \E kk \in Ranks(points) : \E dt \in DimThreshs :
       \E smp \in (IF 2 >= dt THEN Draws(points, r) ELSE {<<>>}) :
        /\ ref' = r
        /\ k' = kk
        /\ dimThresh' = dt
        /\ S' = smp
        /\ result' = hypervolumeEstX(Negate(points), r, kk, dt, smp)
    /\ op' = "hypervolumeEstX"
    /\ UNCHANGED points

Return ==
    /\ op # "idle"
    /\ op' = "idle"
    /\ k' = 0
    /\ ref' = None
    /\ dimThresh' = 0
    /\ S' = <<>>
    /\ result' = NoResult
    /\ UNCHANGED points

Next == CallNaive \/ CallExact \/ CallSampled \/ CallEst \/ CallEstX \/ Return

Spec == Init /\ [][Next]_vars

\* The two deterministic indicator functions alone.
NextExact == CallNaive \/ CallExact \/ Return

SpecExact == Init /\ [][NextExact]_vars

\* The three indicator functions.
NextIndicator == CallNaive \/ CallExact \/ CallSampled \/ Return

SpecIndicator == Init /\ [][NextIndicator]_vars

\* The selector that falls back on the hypervolume contribution.
NextSelector == CallEstX \/ Return

SpecSelector == Init /\ [][NextSelector]_vars

----------------------------------------------------------------------------
(* vocabulary of the properties *)

N == Size(points)

Rows == 0..(N - 1)

\* The call got a well-formed front and a reference point of its
\* dimensionality that bounds it.
WellFormed ==
    /\ ~IsRagged(points)
    /\ ~ref.isNone
    /\ Size(ref.v) = 2
    /\ \A r \in DOMAIN points : \A d \in 0..1 : points[r][d] <= ref.v[d]

ValidRank == 1 <= k /\ k <= N

\* No point is <= another in every coordinate and < in one.
NonDominated(f) ==
    \A i, j \in DOMAIN f :
        ~(/\ \A d \in 0..1 : f[i][d] <= f[j][d]
          /\ \E d \in 0..1 : f[i][d] < f[j][d])

RowPermutations(n) ==
    {p \in [0..(n - 1) -> 0..(n - 1)] : \A a, b \in 0..(n - 1) : p[a] = p[b] => a = b}

RECURSIVE SetSum(_, _)
SetSum(f, D) ==
    IF D = {} THEN 0
    ELSE LET x == CHOOSE y \in D : TRUE IN f[x] + SetSum(f, D \ {x})

\* Unit cells of the box between the coordinate-wise minimum of f and r.
BoxCells(f, r) ==
    {c \in [0..1 -> 0..MaxRef] : \A d \in 0..1 : ColMin(f)[d] <= c[d] /\ c[d] < r[d]}

\* Number of points of f at or below the lower corner of cell c on every axis.
Covering(f, c) == Cardinality({i \in DOMAIN f : \A d \in 0..1 : f[i][d] <= c[d]})

\* Ih_k of point j by its definition: alpha[c-1] summed over the cells point j
\* dominates, c being the number of points dominating the cell.
CellSum(f, kk, r, j) ==
    LET cells == BoxCells(f, r)
    IN  SetSum([c \in cells |->
                  IF \A d \in 0..1 : f[j][d] <= c[d]
                  THEN Alpha(kk, Size(f))[Covering(f, c) - 1]
                  ELSE 0], cells)

\* First position of the smallest value of v.
FirstArgmin(v) == MinOf({i \in DOMAIN v : \A j \in DOMAIN v : v[i] <= v[j]})

----------------------------------------------------------------------------
(* properties *)

\* C1: with k = 1 and a reference point bounding the front, the exact
\* indicator of every point is its hypervolume contribution
\* hypervolume(front) - hypervolume(front without the point), which is what
\* hypeIndicatorNaive returns; dominated and duplicate points included.
C1_ExactIsNaive ==
    (op = "hypeIndicatorExact" /\ WellFormed /\ k = 1) =>
        LET naive == hypeIndicatorNaive(points, ref)
        IN  /\ result.kind = "ok"
            /\ naive.kind = "ok"
            /\ \A i \in Rows :
                /\ result.val[i] = AlphaUnit(N) * naive.val[i]
                /\ naive.val[i] = Hypervolume(points, ref.v)
                                    - Hypervolume(Without(points, i), ref.v)

\* C1 witness: a front with a dominated point, whose dominating point scores.
C1_Witness ==
    /\ op = "hypeIndicatorExact" /\ WellFormed /\ k = 1
    /\ \E i, j \in Rows :
        /\ points[i] # points[j]
        /\ Dominates(points[i], points[j])
        /\ result.val[i] > 0
        /\ result.val[j] = 0

\* C2: with the reference point omitted, each indicator function completes
\* and returns what it returns for ref = the coordinate-wise maximum.
C2_DefaultRef ==
    (/\ op \in {"hypeIndicatorNaive", "hypeIndicatorExact", "hypeIndicatorSampled"}
     /\ ~IsRagged(points)
     /\ ref.isNone
     /\ op # "hypeIndicatorNaive" => ValidRank) =>
        /\ result.kind = "ok"
        /\ op = "hypeIndicatorNaive" =>
              result = hypeIndicatorNaive(points, Some(ColMax(points)))
        /\ op = "hypeIndicatorExact" =>
              result = hypeIndicatorExact(points, k, Some(ColMax(points)))

\* C3: hypervolumeEst returns exactly numRemove distinct indices of the front,
\* in ascending order of score, none of the indices left out scoring lower.
C3_RankWorst ==
    (op = "hypervolumeEst" /\ ValidRank) =>
        /\ result.kind = "ok"
        /\ LET idx == result.val
               h   == IF 2 >= dimThresh
                      THEN hypeIndicatorSampled(points, k, ref, S).val
                      ELSE hypeIndicatorExact(points, k, ref).val
           IN  /\ Size(idx) = k
               /\ \A a \in DOMAIN idx : idx[a] \in Rows
               /\ \A a, b \in DOMAIN idx : idx[a] = idx[b] => a = b
               /\ \A a, b \in DOMAIN idx : a < b => h[idx[a]] <= h[idx[b]]
               /\ \A i \in Rows : (\A a \in DOMAIN idx : idx[a] # i) =>
                      \A a \in DOMAIN idx : h[idx[a]] <= h[i]

\* C3 with the reference point given: the ranking hypervolumeEst returns for
\* a rank in 1..N is as C3 says.
C3_RankWorstGivenRef ==
    (op = "hypervolumeEst" /\ ~ref.isNone) => C3_RankWorst

\* C4 as stated: a rank outside 1..N ends in an error, never in a vector.
C4_InvalidRankRaises ==
    (/\ op \in {"hypeIndicatorExact", "hypeIndicatorSampled"}
     /\ WellFormed
     /\ (k < 1 \/ k > N)) => result.kind # "ok"

\* C4 amended: a rank above N ends in an IndexError; a rank below 1 is not
\* rejected: hypeIndicatorExact returns the all-zero vector and
\* hypeIndicatorSampled returns what it returns for k = 1.
C4_RankOutOfRange ==
    (op \in {"hypeIndicatorExact", "hypeIndicatorSampled"} /\ ~IsRagged(points)) =>
        /\ k > N => result.kind = "IndexError"
        /\ (k < 1 /\ op = "hypeIndicatorExact" /\ WellFormed) =>
              result = Ok(Zeros(N), 1)
        /\ (k < 1 /\ op = "hypeIndicatorSampled") =>
              result = hypeIndicatorSampled(points, 1, ref, S)

\* C4 witness: the sampled estimator returns a non-zero vector for k = 0.
C4_Witness ==
    /\ op = "hypeIndicatorSampled" /\ k = 0
    /\ result.kind = "ok"
    /\ \E i \in Rows : result.val[i] > 0

\* C5 as stated: a front with rows of different lengths, or a reference point
\* whose length is not the front's dimensionality, ends in an error.
C5_ShapeMismatchRaises ==
    (/\ op \in {"hypeIndicatorNaive", "hypeIndicatorExact", "hypeIndicatorSampled"}
     /\ op # "hypeIndicatorNaive" => ValidRank
     /\ (IsRagged(points) \/ (~ref.isNone /\ Size(ref.v) # 2))) =>
        result.kind # "ok"

\* C5 amended: rows of different lengths end in a ValueError in every
\* indicator function.  A reference point shorter than M ends
\* hypeIndicatorExact in an IndexError, a longer one is accepted and its extra
\* coordinates are ignored.  hypeIndicatorSampled broadcasts a reference point
\* of length 1 to every axis, and ends in an error for any other length but M.
C5_ShapeMismatch ==
    (op \in {"hypeIndicatorNaive", "hypeIndicatorExact", "hypeIndicatorSampled"}) =>
        /\ IsRagged(points) => result.kind = "ValueError"
        /\ (op = "hypeIndicatorExact" /\ ~IsRagged(points) /\ ~ref.isNone) =>
              /\ Size(ref.v) < 2 => result.kind = "IndexError"
              /\ (Size(ref.v) > 2 /\ k <= N) =>
                    /\ result.kind = "ok"
                    /\ result = hypeIndicatorExact(points, k, Some(Take(ref.v, 2)))
        /\ (op = "hypeIndicatorSampled" /\ ~IsRagged(points) /\ ~ref.isNone) =>
              /\ (Size(ref.v) = 1 /\ k <= N) =>
                    /\ result.kind = "ok"
                    /\ result = hypeIndicatorSampled(points, k,
                                    Some([d \in 0..1 |-> ref.v[0]]), S)
              /\ Size(ref.v) \notin {1, 2} => result.kind \in {"IndexError", "ValueError"}

\* C5 witness: hypeIndicatorExact returns non-zero scores computed with a
\* three-coordinate reference point.
C5_Witness ==
    /\ op = "hypeIndicatorExact"
    /\ ~IsRagged(points) /\ ~ref.isNone /\ Size(ref.v) = 3
    /\ result.kind = "ok"
    /\ \E i \in Rows : result.val[i] > 0

\* C6: hypeIndicatorExact of a row permutation of the front is the same
\* permutation of the indicator vector, ties on an axis included.
C6_PermutationInvariant ==
    (op = "hypeIndicatorExact" /\ WellFormed /\ ValidRank) =>
        /\ result.kind = "ok"
        /\ \A p \in RowPermutations(N) :
            LET permuted == hypeIndicatorExact([r \in Rows |-> points[p[r]]], k, ref)
            IN  \A r \in Rows : permuted.val[r] = result.val[p[r]]

\* C6 witness: two different points tied on an axis, with different scores.
C6_Witness ==
    /\ op = "hypeIndicatorExact" /\ WellFormed /\ ValidRank
    /\ \E i, j \in Rows :
        /\ \E d \in 0..1 : points[i][d] = points[j][d]
        /\ result.val[i] # result.val[j]
        /\ result.val[j] > 0

\* C7: for mutually non-dominated points bounded by ref and k in 1..N, no
\* entry of the exact or of the sampled indicator vector is negative.
C7_NonNegative ==
    (/\ op \in {"hypeIndicatorExact", "hypeIndicatorSampled"}
     /\ WellFormed /\ ValidRank /\ NonDominated(points)) =>
        /\ result.kind = "ok"
        /\ \A i \in Rows : result.val[i] >= 0

\* C7 witness: a sampled estimate of two different non-dominated points in
\* which one point scores.
C7_Witness ==
    /\ op = "hypeIndicatorSampled" /\ WellFormed /\ ValidRank
    /\ N >= 2 /\ NonDominated(points) /\ points[0] # points[1]
    /\ \E i \in Rows : result.val[i] > 0

\* C8: the exact score of point j is alpha[c-1] summed over the unit cells of
\* the box that point j dominates, c being the number of points dominating the
\* cell; the sampled estimate is that sum when the samples cover each cell once.
C8_ExactIsCellSum ==
    /\ (op = "hypeIndicatorExact" /\ WellFormed /\ ValidRank) =>
          /\ result.kind = "ok"
          /\ \A j \in Rows : result.val[j] = CellSum(points, k, ref.v, j)
    /\ (/\ op = "hypeIndicatorSampled" /\ WellFormed /\ ValidRank
        /\ \A d \in 0..1 : ref.v[d] > ColMin(points)[d]
        /\ Size(S) = Cardinality(BoxCells(points, ref.v))
        /\ S = FullCover(points, ref.v)) =>
          /\ result.kind = "ok"
          /\ \A j \in Rows : result.val[j] = result.den * CellSum(points, k, ref.v, j)

\* C8 witness: a full cover with a cell that two points dominate, weighted
\* for k = 2.
C8_Witness ==
    /\ op = "hypeIndicatorSampled" /\ WellFormed /\ k = 2 /\ N >= 2
    /\ \A d \in 0..1 : ref.v[d] > ColMin(points)[d]
    /\ S = FullCover(points, ref.v)
    /\ \E s \in DOMAIN S : Covering(points, S[s]) = 2
    /\ points[0] # points[1]
    /\ result.val[0] > 0

\* C9: below dimThresh and with numRemove = 1, hypervolumeEstX returns the
\* first index of the smallest hypervolume contribution (the first minimum of
\* hypeIndicatorNaive under the reference point hypervolume() uses); from
\* dimThresh on it returns what hypervolumeEst returns.
C9_EstX ==
    (op = "hypervolumeEstX") =>
        /\ (2 < dimThresh /\ k = 1) =>
              LET r     == IF ref.isNone
                           THEN [d \in 0..1 |-> ColMax(points)[d] + 1]
                           ELSE ref.v
                  naive == hypeIndicatorNaive(points, Some(r))
              IN  /\ result.kind = "ok"
                  /\ result.val \in Rows
                  /\ result.val = FirstArgmin(naive.val)
                  /\ \A i \in Rows :
                        Hypervolume(points, r) - Hypervolume(Without(points, result.val), r)
                          <= Hypervolume(points, r) - Hypervolume(Without(points, i), r)
        /\ 2 >= dimThresh =>
              result = hypervolumeEst(Negate(points), ref, k, dimThresh, S)

\* C9 witness: the least contributing point is not the first one.
C9_Witness ==
    /\ op = "hypervolumeEstX" /\ 2 < dimThresh /\ k = 1
    /\ result.kind = "ok"
    /\ result.val = 1
    /\ ~ref.isNone
    /\ hypeIndicatorNaive(points, ref).val[1] < hypeIndicatorNaive(points, ref).val[0]

\* C10: for k = N the weights are alpha[i] = 1/(i+1) and the exact scores sum
\* to the hypervolume of the front.
C10_SumIsHypervolume ==
    (op = "hypeIndicatorExact" /\ WellFormed /\ k = N) =>
        /\ \A i \in Rows : Alpha(k, N)[i] * (i + 1) = AlphaUnit(N)
        /\ result.kind = "ok"
        /\ SumTo(result.val, N) = AlphaUnit(N) * Hypervolume(points, ref.v)

\* C10 witness: two points sharing a dominated region.
C10_Witness ==
    /\ op = "hypeIndicatorExact" /\ WellFormed /\ k = N /\ N >= 2
    /\ \E c \in BoxCells(points, ref.v) : Covering(points, c) >= 2
    /\ points[0] # points[1]
    /\ result.val[0] > 0 /\ result.val[1] > 0

====
